---------------------------- MODULE Spec2Model ----------------------------
(***************************************************************************)
(* Model of src/03.cpp: log sinks (LogCommand: FileLog, ConsoleLog), log   *)
(* messages (LogMessage and its four subclasses), the chain of handlers    *)
(* (LogHandler::receiveLog and the four handleLog overrides) and the       *)
(* try/catch driver of main.                                               *)
(*                                                                         *)
(* main's chain and its three messages are literals of the source.  The    *)
(* model keeps main's control structure (one try block around NumCalls     *)
(* receiveLog calls, one catch clause, return 0) and draws the chain from   *)
(* Chains and each routed message from Messages, so that every handler     *)
(* order and every message order is exercised; main's own run is the        *)
(* behaviour with chain = MainChain and routed = MainMsgs.                  *)
(***************************************************************************)
EXTENDS Integers, Sequences, FiniteSets

VARIABLES
    chain,      \* handler classes, outermost link first (LogHandler::next)
    pc,         \* position of main: "try", "receiveLog", "catch", "done", "terminate"
    k,          \* number of the next receiveLog call of the try block
    logmsg,     \* the message being routed (argument of receiveLog)
    link,       \* index in chain of the link whose receiveLog is running
    console,    \* lines written to std::cout
    file,       \* lines of the file "file_path"
    ofs,        \* std::ofstream ofs of main: [is_open, fail]
    exc,        \* exception in flight or caught: [class, what]
    exitCode,   \* exit status of the process, -1 while it runs
    routed,     \* history: messages passed to receiveLog so far
    consulted,  \* history: links whose handleLog ran for logmsg
    emits,      \* history: links that called logmsg.message()
    writes,     \* history: print calls made while routing logmsg
    ret,        \* history: value returned by logmsg.message(), "" if none
    result,     \* history: "none", "pending", "returned", "threw"
    before,     \* history: console and file when routing of logmsg began
    osOpens     \* history: the system's answers to the open calls it was asked

vars == <<chain, pc, k, logmsg, link, console, file, ofs, exc, exitCode,
          routed, consulted, emits, writes, ret, result, before, osOpens>>

-----------------------------------------------------------------------------
(* Bounds and literals *)

MaxChainLen == 3

NumCalls == 3

HandlerKinds == {"WarningLogHandler", "ErrorLogHandler",
                 "FatalErrorLogHandler", "UnknownMessageLogHandler"}

\* every chain of at most MaxChainLen links, duplicates and gaps included
ShortChains == UNION {[1..n -> HandlerKinds] : n \in 1..MaxChainLen}

\* the chains that hold each handler class once, in any order
FullChains ==
    {c \in [1..Cardinality(HandlerKinds) -> HandlerKinds] :
        \A i, j \in DOMAIN c : c[i] = c[j] => i = j}

Chains == ShortChains \cup FullChains

Sinks == {"cl", "fl"}

Messages ==
    {[cls |-> c, sink |-> s] : c \in {"WarningLogMessage", "ErrorLogMessage"},
                               s \in Sinks}
    \cup {[cls |-> "FatalErrorLogMessage", sink |-> "none"],
          [cls |-> "UnknownMessageLogMessage", sink |-> "none"]}

InitialFiles == {<<>>, <<"earlier line">>}

MainChain == <<"UnknownMessageLogHandler", "FatalErrorLogHandler",
               "ErrorLogHandler", "WarningLogHandler">>

MainMsgs == <<[cls |-> "WarningLogMessage", sink |-> "cl"],
              [cls |-> "ErrorLogMessage", sink |-> "fl"],
              [cls |-> "UnknownMessageLogMessage", sink |-> "none"]>>

NoMsg == [cls |-> "none", sink |-> "none"]

NoExc == [class |-> "none", what |-> ""]

UnhandledText == "Error: Log message should be handled!"

-----------------------------------------------------------------------------
(* LogMessage subclasses *)

type(m) ==
    CASE m.cls = "WarningLogMessage" -> "tWarning"
      [] m.cls = "ErrorLogMessage" -> "tError"
      [] m.cls = "FatalErrorLogMessage" -> "tFatalError"
      [] m.cls = "UnknownMessageLogMessage" -> "tUnknownMessage"
      [] OTHER -> "none"

\* message() leaves by throw in the two classes without a sink
messageThrows(m) ==
    m.cls \in {"FatalErrorLogMessage", "UnknownMessageLogMessage"}

\* mutant: the Warning literal with a capital letter
messageText_Capitalised(m) ==
    CASE m.cls = "WarningLogMessage" -> "Warning"
      [] m.cls = "ErrorLogMessage" -> "error"
      [] m.cls = "FatalErrorLogMessage" -> "FatalError!"
      [] m.cls = "UnknownMessageLogMessage" -> "UnknownMessage!"
      [] OTHER -> ""

\* mutant: FatalErrorLogMessage throws the text of UnknownMessageLogMessage
messageText_FatalAsUnknown(m) ==
    CASE m.cls = "WarningLogMessage" -> "warning"
      [] m.cls = "ErrorLogMessage" -> "Error"
      [] m.cls = "FatalErrorLogMessage" -> "UnknownMessage!"
      [] m.cls = "UnknownMessageLogMessage" -> "FatalError!"
      [] OTHER -> ""

\* the literal message() prints and returns, or the what() of what it throws
messageText(m) ==
    CASE m.cls = "WarningLogMessage" -> "warning"
      [] m.cls = "ErrorLogMessage" -> "Error"
      [] m.cls = "FatalErrorLogMessage" -> "FatalError!"
      [] m.cls = "UnknownMessageLogMessage" -> "UnknownMessage!"
      [] OTHER -> ""

\* the print calls message() makes: one on the bound sink, none when it throws
messagePrints(m) ==
    IF messageThrows(m) THEN <<>> ELSE <<[sink |-> m.sink, text |-> messageText(m)]>>

-----------------------------------------------------------------------------
(* LogCommand subclasses *)

\* *p_ostream << message << std::endl
ConsoleLog_print(con, message) == Append(con, message)

\* std::ofstream::open: fails (failbit) on a stream that is already open or
\* when the system refuses the path; clears the state on success
ofs_open(o, osOk) ==
    IF o.is_open THEN [is_open |-> TRUE, fail |-> TRUE]
    ELSE IF osOk THEN [is_open |-> TRUE, fail |-> FALSE]
    ELSE [is_open |-> FALSE, fail |-> TRUE]

\* *f_ostream << message << std::endl: no output on a stream that is not good
ofs_insert(o, f, message) == IF o.fail THEN f ELSE Append(f, message)

\* std::ofstream::close
ofs_close(o) == [is_open |-> FALSE, fail |-> (o.fail \/ ~o.is_open)]

\* mutant: the line is written without the is_open() test, whatever the
\* state of the stream
FileLog_print_Unguarded(o, f, message, osOk) ==
    [ofs |-> ofs_open(o, osOk), file |-> Append(f, message)]

\* FileLog::print: the stream and the file after the call
FileLog_print(o, f, message, osOk) ==
    LET o1 == ofs_open(o, osOk)
    IN  [ofs |-> o1,
         file |-> IF o1.is_open THEN ofs_insert(o1, f, message) ELSE f]

-----------------------------------------------------------------------------
(* LogHandler subclasses *)

\* mutant: ErrorLogHandler tests for tWarning as well
handleLog_ErrorTakesWarning(h, m) ==
    CASE h = "WarningLogHandler" -> type(m) = "tWarning"
      [] h = "ErrorLogHandler" -> type(m) \in {"tError", "tWarning"}
      [] h = "FatalErrorLogHandler" -> type(m) = "tFatalError"
      [] h = "UnknownMessageLogHandler" -> type(m) = "tUnknownMessage"
      [] OTHER -> FALSE

\* the guard of handleLog: FALSE is the early "return false"
handleLog(h, m) ==
    CASE h = "WarningLogHandler" -> type(m) = "tWarning"
      [] h = "ErrorLogHandler" -> type(m) = "tError"
      [] h = "FatalErrorLogHandler" -> type(m) = "tFatalError"
      [] h = "UnknownMessageLogHandler" -> type(m) = "tUnknownMessage"
      [] OTHER -> FALSE

\* mutant: the last link is never delegated to
hasNext_SkipsLast(c, i) == i < Len(c) - 1

\* receiveLog without a match: is there a link to delegate to
hasNext(c, i) == i < Len(c)

\* mutant: a catch clause for std::logic_error
catches_LogicErrorOnly(e) == e.class \in {"logic_error"}

\* catch (const std::exception& e): std::runtime_error derives from it
catches(e) == e.class \in {"exception", "runtime_error"}

-----------------------------------------------------------------------------
Init ==
    /\ chain \in Chains
    /\ file \in InitialFiles
    /\ pc = "try"
    /\ k = 1
    /\ logmsg = NoMsg
    /\ link = 0
    /\ console = <<>>
    /\ ofs = [is_open |-> FALSE, fail |-> FALSE]
    /\ exc = NoExc
    /\ exitCode = -1
    /\ routed = <<>>
    /\ consulted = <<>>
    /\ emits = <<>>
    /\ writes = <<>>
    /\ ret = ""
    /\ result = "none"
    /\ before = [console |-> <<>>, file |-> file]
    /\ osOpens = <<>>

\* main: the k-th receiveLog call of the try block, on the outermost link
Call(m) ==
    /\ pc = "try"
    /\ k <= NumCalls
    /\ pc' = "receiveLog"
    /\ logmsg' = m
    /\ link' = 1
    /\ routed' = Append(routed, m)
    /\ consulted' = <<>>
    /\ emits' = <<>>
    /\ writes' = <<>>
    /\ ret' = ""
    /\ result' = "pending"
    /\ before' = [console |-> console, file |-> file]
    /\ UNCHANGED <<chain, k, console, file, ofs, exc, exitCode, osOpens>>

\* receiveLog: handleLog returned false and next is set: next->receiveLog
Forward ==
    /\ pc = "receiveLog"
    /\ ~handleLog(chain[link], logmsg)
    /\ hasNext(chain, link)
    /\ link' = link + 1
    /\ consulted' = Append(consulted, link)
    /\ UNCHANGED <<chain, pc, k, logmsg, console, file, ofs, exc, exitCode,
                   routed, emits, writes, ret, result, before, osOpens>>

\* mutant: the last link returns instead of throwing
Unhandled_Silent ==
    /\ pc = "receiveLog"
    /\ ~handleLog(chain[link], logmsg)
    /\ ~hasNext(chain, link)
    /\ consulted' = Append(consulted, link)
    /\ result' = "returned"
    /\ k' = k + 1
    /\ pc' = "try"
    /\ UNCHANGED <<chain, logmsg, link, console, file, ofs, exc, exitCode,
                   routed, emits, writes, ret, before, osOpens>>

\* receiveLog: handleLog returned false and next is null: throw
Unhandled ==
    /\ pc = "receiveLog"
    /\ ~handleLog(chain[link], logmsg)
    /\ ~hasNext(chain, link)
    /\ consulted' = Append(consulted, link)
    /\ exc' = [class |-> "runtime_error", what |-> UnhandledText]
    /\ result' = "threw"
    /\ pc' = "catch"
    /\ UNCHANGED <<chain, k, logmsg, link, console, file, ofs, exitCode,
                   routed, emits, writes, ret, before, osOpens>>

\* the control of main after a receiveLog call returned
AfterReturn ==
    /\ result' = "returned"
    /\ k' = k + 1
    /\ pc' = "try"

\* mutant: handleLog swallows the exception of message() and returns false
HandleThrow_Swallowed ==
    /\ pc = "receiveLog"
    /\ handleLog(chain[link], logmsg)
    /\ messageThrows(logmsg)
    /\ consulted' = Append(consulted, link)
    /\ emits' = Append(emits, link)
    /\ IF hasNext(chain, link)
       THEN /\ link' = link + 1
            /\ UNCHANGED <<exc, result, pc>>
       ELSE /\ exc' = [class |-> "runtime_error", what |-> UnhandledText]
            /\ result' = "threw"
            /\ pc' = "catch"
            /\ UNCHANGED link
    /\ UNCHANGED <<chain, k, logmsg, console, file, ofs, exitCode,
                   routed, writes, ret, before, osOpens>>

\* handleLog matched and message() throws: the exception unwinds to main
HandleThrow ==
    /\ pc = "receiveLog"
    /\ handleLog(chain[link], logmsg)
    /\ messageThrows(logmsg)
    /\ consulted' = Append(consulted, link)
    /\ emits' = Append(emits, link)
    /\ exc' = [class |-> "runtime_error", what |-> messageText(logmsg)]
    /\ result' = "threw"
    /\ pc' = "catch"
    /\ UNCHANGED <<chain, k, logmsg, link, console, file, ofs, exitCode,
                   routed, writes, ret, before, osOpens>>

\* handleLog matched, message() prints on a ConsoleLog and returns
HandleConsole ==
    /\ pc = "receiveLog"
    /\ handleLog(chain[link], logmsg)
    /\ ~messageThrows(logmsg)
    /\ logmsg.sink = "cl"
    /\ consulted' = Append(consulted, link)
    /\ emits' = Append(emits, link)
    /\ console' = ConsoleLog_print(console, messagePrints(logmsg)[1].text)
    /\ writes' = writes \o messagePrints(logmsg)
    /\ ret' = messageText(logmsg)
    /\ AfterReturn
    /\ UNCHANGED <<chain, logmsg, link, file, ofs, exc, exitCode, routed, before, osOpens>>

\* handleLog matched, message() prints on a FileLog and returns; osOk is
\* whether the system lets "file_path" be opened for appending
HandleFile(osOk) ==
    /\ pc = "receiveLog"
    /\ handleLog(chain[link], logmsg)
    /\ ~messageThrows(logmsg)
    /\ logmsg.sink = "fl"
    /\ consulted' = Append(consulted, link)
    /\ emits' = Append(emits, link)
    /\ LET r == FileLog_print(ofs, file, messagePrints(logmsg)[1].text, osOk)
       IN  /\ ofs' = r.ofs
           /\ file' = r.file
    /\ writes' = writes \o messagePrints(logmsg)
    /\ osOpens' = IF ofs.is_open THEN osOpens ELSE Append(osOpens, osOk)
    /\ ret' = messageText(logmsg)
    /\ AfterReturn
    /\ UNCHANGED <<chain, logmsg, link, console, exc, exitCode, routed, before>>

\* mutant: one try/catch per call: after the report the next call is made
Catch_Resume ==
    /\ pc = "catch"
    /\ console' = Append(console, exc.what)
    /\ k' = k + 1
    /\ pc' = "try"
    /\ UNCHANGED <<chain, logmsg, link, file, ofs, exc, exitCode,
                   routed, consulted, emits, writes, ret, result, before, osOpens>>

\* main: the catch clause prints e.what(), then return 0 (~FileLog closes
\* the stream); an exception no clause catches ends in std::terminate
Catch ==
    /\ pc = "catch"
    /\ IF catches(exc)
       THEN /\ console' = Append(console, exc.what)
            /\ pc' = "done"
            /\ exitCode' = 0
            /\ ofs' = ofs_close(ofs)
       ELSE /\ pc' = "terminate"
            /\ exitCode' = 134
            /\ UNCHANGED <<console, ofs>>
    /\ UNCHANGED <<chain, k, logmsg, link, file, exc,
                   routed, consulted, emits, writes, ret, result, before, osOpens>>

\* main: the try block ran to its end: return 0 (~FileLog closes the stream)
Return0 ==
    /\ pc = "try"
    /\ k > NumCalls
    /\ pc' = "done"
    /\ exitCode' = 0
    /\ ofs' = ofs_close(ofs)
    /\ UNCHANGED <<chain, k, logmsg, link, console, file, exc,
                   routed, consulted, emits, writes, ret, result, before, osOpens>>

Next ==
    \/ \E m \in Messages : Call(m)
    \/ Forward
    \/ Unhandled
    \/ HandleThrow
    \/ HandleConsole
    \/ \E osOk \in BOOLEAN : HandleFile(osOk)
    \/ Catch
    \/ Return0

Spec == Init /\ [][Next]_vars

\* the program is one thread that runs every step to completion
FairSpec == Spec /\ WF_vars(Next)

-----------------------------------------------------------------------------
(* Vocabulary of the properties *)

\* the severity a handler class is bound to
BoundSeverity(h) ==
    CASE h = "WarningLogHandler" -> "tWarning"
      [] h = "ErrorLogHandler" -> "tError"
      [] h = "FatalErrorLogHandler" -> "tFatalError"
      [] h = "UnknownMessageLogHandler" -> "tUnknownMessage"
      [] OTHER -> "unbound"

\* the links of c bound to the severity of m
Matching(c, m) == {i \in 1..Len(c) : BoundSeverity(c[i]) = type(m)}

\* the first such link; 0 when there is none
FirstMatch(c, m) ==
    IF Matching(c, m) = {} THEN 0
    ELSE CHOOSE i \in Matching(c, m) : \A j \in Matching(c, m) : i <= j

\* the routing of logmsg has ended, normally or by an exception
Routed == result \in {"returned", "threw"}

\* every open the system was asked for so far succeeded
PathOpens == \A i \in 1..Len(osOpens) : osOpens[i]

-----------------------------------------------------------------------------
(* C1: on main's chain (Unknown -> Fatal -> Error -> Warning), a message of  *)
(* any of the four severities has message() invoked by exactly one link,    *)
(* the link bound to the message's severity, and by no other link.          *)
C1_UniqueMatchingHandler ==
    (chain = MainChain /\ result # "none") =>
        /\ Len(emits) <= 1
        /\ \A i \in 1..Len(emits) :
              BoundSeverity(chain[emits[i]]) = type(logmsg)
        /\ Routed => Len(emits) = 1

C1_Witness ==
    /\ chain = MainChain
    /\ result = "returned"
    /\ type(logmsg) = "tWarning"
    /\ emits = <<4>>
    /\ consulted = <<1, 2, 3, 4>>

C3_EveryPrintAppendsOneLine ==
    (result = "returned" /\ logmsg.sink = "fl" /\ PathOpens) =>
        file = Append(before.file, messageText(logmsg))

(* C4 as the specification states it: main's chain and main's three         *)
(* messages give the console line "warning", the file line "Error", a       *)
(* third routing that fails with "UnknownMessage!", printed by the driver,  *)
(* and a normal end.                                                        *)
C4_ScenarioAsStated ==
    (chain = MainChain /\ routed = MainMsgs /\ pc = "done") =>
        /\ console = <<"warning", "UnknownMessage!">>
        /\ \E f0 \in InitialFiles : file = Append(f0, "Error")
        /\ result = "threw"
        /\ exc.what = "UnknownMessage!"
        /\ exitCode = 0

(* C4, amended: the same run, where the file receives the line "Error"      *)
(* provided "file_path" can be opened for appending; when it cannot, the    *)
(* file is left as it was and the rest of the run is the same.              *)
C4_Scenario ==
    (chain = MainChain /\ routed = SubSeq(MainMsgs, 1, Len(routed))) =>
        /\ (Len(routed) = 1 /\ Routed) =>
              /\ result = "returned"
              /\ console = <<"warning">>
              /\ file \in InitialFiles
        /\ (Len(routed) = 2 /\ Routed) =>
              /\ result = "returned"
              /\ console = <<"warning">>
              /\ Len(osOpens) = 1
              /\ file = IF osOpens[1] THEN Append(before.file, "Error")
                        ELSE before.file
        /\ (Len(routed) = 3 /\ Routed) =>
              /\ result = "threw"
              /\ exc = [class |-> "runtime_error", what |-> "UnknownMessage!"]
              /\ pc \in {"catch", "done"}
              /\ file = before.file
        /\ pc = "done" =>
              /\ routed = MainMsgs
              /\ console = <<"warning", "UnknownMessage!">>
              /\ \E f0 \in InitialFiles :
                    file = IF osOpens[1] THEN Append(f0, "Error") ELSE f0
              /\ exitCode = 0

C4_Witness ==
    /\ chain = MainChain
    /\ routed = MainMsgs
    /\ pc = "done"
    /\ osOpens = <<TRUE>>
    /\ file = <<"earlier line", "Error">>
    /\ console = <<"warning", "UnknownMessage!">>

(* C5: when no link of the chain is bound to the message's severity,        *)
(* receiveLog at the outermost link fails with the unhandled-message error, *)
(* message() is never invoked and no sink is written to.                    *)
C5_UnmatchedIsUnhandled ==
    (result # "none" /\ Matching(chain, logmsg) = {}) =>
        /\ emits = <<>>
        /\ writes = <<>>
        /\ ret = ""
        /\ file = before.file
        /\ pc # "done" => console = before.console
        /\ Routed =>
              /\ result = "threw"
              /\ exc = [class |-> "runtime_error", what |-> UnhandledText]
              /\ consulted = [i \in 1..Len(chain) |-> i]

C5_Witness ==
    /\ Matching(chain, logmsg) = {}
    /\ Len(chain) = 3
    /\ pc = "catch"
    /\ exc.what = UnhandledText
    /\ logmsg.sink = "fl"

(* C6: on main's chain a Warning (an Error) message makes exactly one       *)
(* print call, on its own sink, with the text "warning" ("Error"); nothing  *)
(* reaches the other sink; message() returns that text and raises nothing.  *)
C6_OneWriteOfTheLiteral ==
    (chain = MainChain /\ Routed /\ type(logmsg) \in {"tWarning", "tError"}) =>
        LET lit == IF type(logmsg) = "tWarning" THEN "warning" ELSE "Error"
        IN  /\ result = "returned"
            /\ writes = <<[sink |-> logmsg.sink, text |-> lit]>>
            /\ ret = lit
            /\ exc = NoExc
            /\ logmsg.sink = "cl" =>
                  /\ console = Append(before.console, lit)
                  /\ file = before.file
            /\ logmsg.sink = "fl" =>
                  /\ console = before.console
                  /\ file \in {before.file, Append(before.file, lit)}

C6_Witness ==
    /\ chain = MainChain
    /\ result = "returned"
    /\ logmsg = [cls |-> "ErrorLogMessage", sink |-> "cl"]
    /\ writes = <<[sink |-> "cl", text |-> "Error"]>>
    /\ ret = "Error"

(* C7: a FatalError message routed through a chain that holds the          *)
(* FatalError handler, at whatever position, fails with the text           *)
(* "FatalError!"; an UnknownMessage message likewise fails with            *)
(* "UnknownMessage!"; neither writes to a sink.                            *)
C7_FatalAndUnknownFail ==
    (Routed /\ type(logmsg) \in {"tFatalError", "tUnknownMessage"}
            /\ Matching(chain, logmsg) # {}) =>
        /\ result = "threw"
        /\ exc = [class |-> "runtime_error",
                  what |-> IF type(logmsg) = "tFatalError" THEN "FatalError!"
                           ELSE "UnknownMessage!"]
        /\ writes = <<>>
        /\ file = before.file
        /\ pc # "done" => console = before.console

C7_Witness ==
    /\ type(logmsg) = "tFatalError"
    /\ Len(chain) = 4
    /\ chain[4] = "FatalErrorLogHandler"
    /\ emits = <<4>>
    /\ result = "threw"
    /\ exc.what = "FatalError!"

(* C8: a print on the file sink whose path cannot be opened raises nothing  *)
(* and writes nothing: the file is unchanged, and the message is still      *)
(* handled, message() returning its text.                                   *)
C8_FailedOpenIsSilent ==
    (pc # "done" /\ writes # <<>> /\ writes[1].sink = "fl" /\ ~ofs.is_open) =>
        /\ result = "returned"
        /\ pc = "try"
        /\ ret = writes[1].text
        /\ file = before.file
        /\ console = before.console
        /\ exc = NoExc

C8_Witness ==
    /\ pc = "try"
    /\ result = "returned"
    /\ logmsg = [cls |-> "ErrorLogMessage", sink |-> "fl"]
    /\ ~ofs.is_open
    /\ osOpens = <<FALSE>>
    /\ ret = "Error"
    /\ file = <<"earlier line">>

(* C9: the driver always ends normally with exit code 0: every error of a   *)
(* routing, the fatal-message error and the unhandled-message error, is    *)
(* caught in main and none leaves it.                                       *)
C9_AlwaysExitsZero ==
    /\ [](exitCode \in {-1, 0} /\ pc # "terminate")
    /\ <>[](pc = "done" /\ exitCode = 0)

C9_Witness ==
    /\ pc = "done"
    /\ exitCode = 0
    /\ result = "threw"
    /\ exc.what = UnhandledText

(* C10: the links are consulted in chain order from the outermost one; the  *)
(* first link bound to the message's severity invokes message() once and    *)
(* ends the traversal, also when message() fails: no later link is          *)
(* consulted, no second message() call is made and the error is that of     *)
(* message(), never the unhandled-message error.                            *)
C10_FirstMatchEndsTraversal ==
    result # "none" =>
        /\ consulted = [i \in 1..Len(consulted) |-> i]
        /\ Len(emits) <= 1
        /\ \A i \in 1..Len(consulted) :
              i < FirstMatch(chain, logmsg) \/ FirstMatch(chain, logmsg) = 0 \/
              (i = FirstMatch(chain, logmsg) /\ emits = <<i>>)
        /\ emits # <<>> =>
              /\ emits[1] = FirstMatch(chain, logmsg)
              /\ Len(consulted) = emits[1]
              /\ pc # "receiveLog"
              /\ Routed
              /\ result = "threw" =>
                    exc = [class |-> "runtime_error", what |-> messageText(logmsg)]
        /\ (result = "threw" /\ exc.what = UnhandledText) => emits = <<>>

C10_Witness ==
    /\ Matching(chain, logmsg) = {2, 3}
    /\ emits = <<2>>
    /\ consulted = <<1, 2>>
    /\ result = "threw"
    /\ pc = "done"

=============================================================================
